---- MODULE Spec2Model ----
(***************************************************************************)
(* Double-entry ledger API (src/main.py, src/models.py, src/schemas.py).   *)
(*                                                                         *)
(* Each request handler runs in its own worker with its own database       *)
(* session.  A session's INSERTs (db.flush) stay private to the session    *)
(* until the `with db.begin()` block commits; an exception inside the      *)
(* block rolls every one of them back.  SELECT ... FOR UPDATE              *)
(* (with_for_update) takes the row lock of an accounts row, held until the *)
(* session commits or rolls back.  The ForeignKey columns of LedgerEntry   *)
(* are checked by the store when the row is inserted.                      *)
(*                                                                         *)
(* Amounts are counted in units of the smallest representable amount       *)
(* (Numeric(19, 4): 0.0001).                                               *)
(***************************************************************************)
EXTENDS Integers, FiniteSets, Sequences, TLC

\* ---------------------------------------------------------------- bounds
NumWorkers == 2        \* request handlers running at the same time
MaxRequests == 3       \* requests sent to the transaction endpoints
MaxAccounts == 2       \* accounts that can be created
MaxAmount == 2         \* largest amount of a request
MaxBalance == 3        \* largest funding of the source account in InitConcurrent
MaxConcurrent == 3     \* most requests sent at the same time in InitConcurrent

Workers == 1..NumWorkers
AccountIds == 1..MaxAccounts
\* an account id that no accounts row has
UnknownId == MaxAccounts + 1
\* amounts a client can send: pydantic accepts any Decimal, also 0 and negatives
Amounts == (0 - 1)..MaxAmount

VARIABLES
    accounts,       \* committed rows of table accounts (their ids)
    transactions,   \* committed rows of table transactions
    ledger_entries, \* committed rows of table ledger_entries
    row_lock,       \* accounts row -> worker holding its FOR UPDATE lock, 0 if none
    pc,             \* worker -> position in its handler
    request,        \* worker -> the request body it handles
    request_no,     \* worker -> which request that is (1st, 2nd, ...), 0 when idle
    served,         \* requests received so far
    flushed_tx,     \* worker -> transactions rows INSERTed by its session, uncommitted
    flushed_entries,\* worker -> ledger_entries rows INSERTed by its session, uncommitted
    balance,        \* worker -> the handler's local current_balance / source_balance
    outcome,        \* worker -> how its request ended
    reader          \* the client of the read endpoints: the call it is in, or its response

vars == <<accounts, transactions, ledger_entries, row_lock, pc, request,
          request_no, served, flushed_tx, flushed_entries, balance, outcome,
          reader>>

\* ---------------------------------------------------------------- rows
\* an id computed from the content of the request instead of drawn for the object
TransactionId_from_content(w) ==
    IF request[w].op = "TRANSFER"
    THEN 100 + 10 * request[w].source_account_id + request[w].amount
    ELSE 10 * request[w].account_id + request[w].amount

\* models.Transaction / models.LedgerEntry: id = uuid4(), unique per created object.
\* The objects created while handling the n-th request get ids derived from n.
TransactionId(w) == request_no[w]
EntryId(w, k) == 2 * (request_no[w] - 1) + k

Transaction(w, type) ==
    [id |-> TransactionId(w), type |-> type, status |-> "COMPLETED"]

LedgerEntry(w, k, account_id, entry_type, amount) ==
    [id |-> EntryId(w, k), account_id |-> account_id,
     transaction_id |-> TransactionId(w), entry_type |-> entry_type,
     amount |-> amount]

\* SUM(CASE WHEN entry_type = 'CREDIT' THEN amount ELSE -amount END)
RECURSIVE SignedSum(_)
SignedSum(rows) ==
    IF rows = {} THEN 0
    ELSE LET e == CHOOSE x \in rows : TRUE
         IN  (IF e.entry_type = "CREDIT" THEN e.amount ELSE 0 - e.amount)
             + SignedSum(rows \ {e})

\* the balance query: COALESCE(SUM(...), 0) FROM ledger_entries WHERE account_id = :acc_id
BalanceQuery(rows, acc_id) == SignedSum({e \in rows : e.account_id = acc_id})

\* the rows of ledger_entries a statement of worker w's session reads:
\* the committed ones and the session's own
VisibleEntries(w) == ledger_entries \cup flushed_entries[w]

\* the columns declared without ForeignKey: any value is accepted
ForeignKeysHold_undeclared(w, e) == TRUE

\* ForeignKey("accounts.id") and ForeignKey("transactions.id") of a row being inserted
ForeignKeysHold(w, e) ==
    /\ e.account_id \in accounts
    /\ e.transaction_id \in {t.id : t \in transactions \cup flushed_tx[w]}

\* ---------------------------------------------------------------- requests
DepositRequests(ids) ==
    [op : {"DEPOSIT"}, account_id : ids, amount : Amounts]
WithdrawalRequests(ids) ==
    [op : {"WITHDRAWAL"}, account_id : ids, amount : Amounts]
TransferRequests(ids) ==
    [op : {"TRANSFER"}, source_account_id : ids, destination_account_id : ids,
     amount : Amounts]
NoRequest == [op |-> "NONE"]

\* ---------------------------------------------------------------- session
\* the handler returns or raises: the response is decided
Respond(w, result) ==
    /\ pc' = [pc EXCEPT ![w] = "done"]
    /\ outcome' = [outcome EXCEPT ![w] = result]
    /\ balance' = [balance EXCEPT ![w] = 0]

ReleaseLocks(w) ==
    row_lock' = [a \in AccountIds |-> IF row_lock[a] = w THEN 0 ELSE row_lock[a]]

\* the pending rows discarded but the transaction left open: its row locks stay
Rollback_keeps_locks(w) ==
    /\ flushed_tx' = [flushed_tx EXCEPT ![w] = {}]
    /\ flushed_entries' = [flushed_entries EXCEPT ![w] = {}]
    /\ UNCHANGED <<transactions, ledger_entries, row_lock>>

\* `with db.begin()` left by an exception: ROLLBACK
Rollback(w) ==
    /\ flushed_tx' = [flushed_tx EXCEPT ![w] = {}]
    /\ flushed_entries' = [flushed_entries EXCEPT ![w] = {}]
    /\ ReleaseLocks(w)
    /\ UNCHANGED <<transactions, ledger_entries>>

\* a commit that also rewrites the committed transactions:
\* UPDATE transactions SET status = 'SETTLED'
Commit_settles_earlier(w) ==
    /\ transactions' = {[t EXCEPT !.status = "SETTLED"] : t \in transactions}
                          \cup flushed_tx[w]
    /\ ledger_entries' = ledger_entries \cup flushed_entries[w]
    /\ flushed_tx' = [flushed_tx EXCEPT ![w] = {}]
    /\ flushed_entries' = [flushed_entries EXCEPT ![w] = {}]
    /\ ReleaseLocks(w)

\* `with db.begin()` left normally: COMMIT
Commit(w) ==
    /\ transactions' = transactions \cup flushed_tx[w]
    /\ ledger_entries' = ledger_entries \cup flushed_entries[w]
    /\ flushed_tx' = [flushed_tx EXCEPT ![w] = {}]
    /\ flushed_entries' = [flushed_entries EXCEPT ![w] = {}]
    /\ ReleaseLocks(w)

\* the flush of new_tx on a session that commits each statement as it is issued
FlushTransaction_autocommit(w, type) ==
    /\ transactions' = transactions \cup {Transaction(w, type)}
    /\ UNCHANGED <<ledger_entries, flushed_tx, flushed_entries, row_lock>>

\* db.add(new_tx); db.flush()
FlushTransaction(w, type) ==
    /\ flushed_tx' = [flushed_tx EXCEPT ![w] = @ \cup {Transaction(w, type)}]
    /\ UNCHANGED <<transactions, ledger_entries, flushed_entries, row_lock>>

\* whether the INSERT of rows by worker w's session waits for a row lock that
\* another session holds.  The engine is configured in database.py; by the
\* specification only the explicit exclusive hold of a balance-gated operation
\* blocks, and a credit needs no lock.
InsertWaits(w, rows) == FALSE

\* the INSERT of the added entries, issued when the block is left
FlushEntries(w, rows) ==
    /\ ~InsertWaits(w, rows)
    /\ flushed_entries' = [flushed_entries EXCEPT ![w] = @ \cup rows]
    /\ UNCHANGED <<transactions, ledger_entries, flushed_tx, row_lock>>

StoreUnchanged ==
    UNCHANGED <<transactions, ledger_entries, flushed_tx, flushed_entries, row_lock>>

\* ---------------------------------------------------------------- Init
Init ==
    /\ accounts = {}
    /\ transactions = {}
    /\ ledger_entries = {}
    /\ row_lock = [a \in AccountIds |-> 0]
    /\ pc = [w \in Workers |-> "idle"]
    /\ request = [w \in Workers |-> NoRequest]
    /\ request_no = [w \in Workers |-> 0]
    /\ served = 0
    /\ flushed_tx = [w \in Workers |-> {}]
    /\ flushed_entries = [w \in Workers |-> {}]
    /\ balance = [w \in Workers |-> 0]
    /\ outcome = [w \in Workers |-> "none"]
    /\ reader = NoRequest

\* ---------------------------------------------------------------- POST /accounts
create_new_account ==
    /\ Cardinality(accounts) < MaxAccounts
    /\ accounts' = accounts \cup {Cardinality(accounts) + 1}
    /\ UNCHANGED <<transactions, ledger_entries, row_lock, pc, request,
                   request_no, served, flushed_tx, flushed_entries, balance,
                   outcome, reader>>

\* a client sends a request; worker w picks it up (the idle workers being
\* interchangeable, the lowest one does).  Clients know the ids of the accounts
\* created so far and can send any other string as an id.
Receive(w) ==
    /\ pc[w] = "idle"
    /\ \A v \in Workers : v < w => pc[v] # "idle"
    /\ served < MaxRequests
    /\ served' = served + 1
    /\ request_no' = [request_no EXCEPT ![w] = served + 1]
    /\ \E r \in DepositRequests(accounts \cup {UnknownId})
               \cup WithdrawalRequests(accounts \cup {UnknownId})
               \cup TransferRequests(accounts \cup {UnknownId}) :
           request' = [request EXCEPT ![w] = r]
    /\ pc' = [pc EXCEPT ![w] = "validate"]
    /\ UNCHANGED <<accounts, reader, transactions, ledger_entries, row_lock,
                   flushed_tx, flushed_entries, balance, outcome>>

\* the response is sent; the worker is free for the next request
Return(w) ==
    /\ pc[w] = "done"
    /\ pc' = [pc EXCEPT ![w] = "idle"]
    /\ request' = [request EXCEPT ![w] = NoRequest]
    /\ request_no' = [request_no EXCEPT ![w] = 0]
    /\ outcome' = [outcome EXCEPT ![w] = "none"]
    /\ UNCHANGED <<accounts, reader, transactions, ledger_entries, row_lock, served,
                   flushed_tx, flushed_entries, balance>>

\* ---------------------------------------------------------------- POST /deposits
deposit_funds_validate(w) ==
    /\ pc[w] = "validate" /\ request[w].op = "DEPOSIT"
    /\ IF request[w].amount <= 0
       THEN Respond(w, "ValidationError")
       ELSE /\ pc' = [pc EXCEPT ![w] = "add_tx"]
            /\ UNCHANGED <<balance, outcome>>
    /\ StoreUnchanged
    /\ UNCHANGED <<accounts, reader, request, request_no, served>>

deposit_funds_add_tx(w) ==
    /\ pc[w] = "add_tx" /\ request[w].op = "DEPOSIT"
    /\ FlushTransaction(w, "DEPOSIT")
    /\ pc' = [pc EXCEPT ![w] = "add_entry"]
    /\ UNCHANGED <<accounts, reader, request, request_no, served, balance, outcome>>

\* the deposit taking the row lock of its account (with_for_update) before it inserts
deposit_funds_add_entry_for_update(w) ==
    /\ pc[w] = "add_entry" /\ request[w].op = "DEPOSIT"
    /\ LET entry == LedgerEntry(w, 1, request[w].account_id, "CREDIT",
                                request[w].amount)
       IN  IF ForeignKeysHold(w, entry)
           THEN /\ row_lock[request[w].account_id] = 0
                /\ row_lock' = [row_lock EXCEPT ![request[w].account_id] = w]
                /\ flushed_entries' = [flushed_entries EXCEPT ![w] = @ \cup {entry}]
                /\ UNCHANGED <<transactions, ledger_entries, flushed_tx>>
                /\ pc' = [pc EXCEPT ![w] = "commit"]
                /\ UNCHANGED <<balance, outcome>>
           ELSE /\ Rollback(w)
                /\ Respond(w, "InternalFailure")
    /\ UNCHANGED <<accounts, reader, request, request_no, served>>

deposit_funds_add_entry(w) ==
    /\ pc[w] = "add_entry" /\ request[w].op = "DEPOSIT"
    /\ LET entry == LedgerEntry(w, 1, request[w].account_id, "CREDIT",
                                request[w].amount)
       IN  IF ForeignKeysHold(w, entry)
           THEN /\ FlushEntries(w, {entry})
                /\ pc' = [pc EXCEPT ![w] = "commit"]
                /\ UNCHANGED <<balance, outcome>>
           ELSE /\ Rollback(w)
                /\ Respond(w, "InternalFailure")
    /\ UNCHANGED <<accounts, reader, request, request_no, served>>

deposit_funds_commit(w) ==
    /\ pc[w] = "commit" /\ request[w].op = "DEPOSIT"
    /\ Commit(w)
    /\ Respond(w, "Success")
    /\ UNCHANGED <<accounts, reader, request, request_no, served>>

\* ---------------------------------------------------------------- POST /withdrawals
withdraw_funds_validate(w) ==
    /\ pc[w] = "validate" /\ request[w].op = "WITHDRAWAL"
    /\ IF request[w].amount <= 0
       THEN Respond(w, "ValidationError")
       ELSE /\ pc' = [pc EXCEPT ![w] = "lock"]
            /\ UNCHANGED <<balance, outcome>>
    /\ StoreUnchanged
    /\ UNCHANGED <<accounts, reader, request, request_no, served>>

\* the account query without with_for_update(): no row lock is waited for or taken
withdraw_funds_lock_no_for_update(w) ==
    /\ pc[w] = "lock" /\ request[w].op = "WITHDRAWAL"
    /\ IF request[w].account_id \notin accounts
       THEN /\ Rollback(w)
            /\ Respond(w, "NotFound")
       ELSE /\ pc' = [pc EXCEPT ![w] = "balance"]
            /\ UNCHANGED <<transactions, ledger_entries, flushed_tx,
                           flushed_entries, row_lock, balance, outcome>>
    /\ UNCHANGED <<accounts, reader, request, request_no, served>>

\* db.query(Account).filter(id == account_id).with_for_update().first()
withdraw_funds_lock(w) ==
    /\ pc[w] = "lock" /\ request[w].op = "WITHDRAWAL"
    /\ IF request[w].account_id \notin accounts
       THEN /\ Rollback(w)
            /\ Respond(w, "NotFound")
       ELSE /\ row_lock[request[w].account_id] = 0
            /\ row_lock' = [row_lock EXCEPT ![request[w].account_id] = w]
            /\ pc' = [pc EXCEPT ![w] = "balance"]
            /\ UNCHANGED <<transactions, ledger_entries, flushed_tx,
                           flushed_entries, balance, outcome>>
    /\ UNCHANGED <<accounts, reader, request, request_no, served>>

withdraw_funds_balance(w) ==
    /\ pc[w] = "balance" /\ request[w].op = "WITHDRAWAL"
    /\ balance' = [balance EXCEPT ![w] =
                      BalanceQuery(VisibleEntries(w), request[w].account_id)]
    /\ pc' = [pc EXCEPT ![w] = "check"]
    /\ StoreUnchanged
    /\ UNCHANGED <<accounts, reader, request, request_no, served, outcome>>

\* the funds check written with <= : a withdrawal of the whole balance is refused
withdraw_funds_check_off_by_one(w) ==
    /\ pc[w] = "check" /\ request[w].op = "WITHDRAWAL"
    /\ IF balance[w] <= request[w].amount
       THEN /\ Rollback(w)
            /\ Respond(w, "InsufficientFunds")
       ELSE /\ FlushTransaction(w, "WITHDRAWAL")
            /\ pc' = [pc EXCEPT ![w] = "add_entry"]
            /\ UNCHANGED <<balance, outcome>>
    /\ UNCHANGED <<accounts, reader, request, request_no, served>>

withdraw_funds_check(w) ==
    /\ pc[w] = "check" /\ request[w].op = "WITHDRAWAL"
    /\ IF balance[w] < request[w].amount
       THEN /\ Rollback(w)
            /\ Respond(w, "InsufficientFunds")
       ELSE /\ FlushTransaction(w, "WITHDRAWAL")
            /\ pc' = [pc EXCEPT ![w] = "add_entry"]
            /\ UNCHANGED <<balance, outcome>>
    /\ UNCHANGED <<accounts, reader, request, request_no, served>>

withdraw_funds_add_entry(w) ==
    /\ pc[w] = "add_entry" /\ request[w].op = "WITHDRAWAL"
    /\ LET entry == LedgerEntry(w, 1, request[w].account_id, "DEBIT",
                                request[w].amount)
       IN  IF ForeignKeysHold(w, entry)
           THEN /\ FlushEntries(w, {entry})
                /\ pc' = [pc EXCEPT ![w] = "commit"]
                /\ UNCHANGED <<balance, outcome>>
           ELSE /\ Rollback(w)
                /\ Respond(w, "InternalFailure")
    /\ UNCHANGED <<accounts, reader, request, request_no, served>>

withdraw_funds_commit(w) ==
    /\ pc[w] = "commit" /\ request[w].op = "WITHDRAWAL"
    /\ Commit(w)
    /\ Respond(w, "Success")
    /\ UNCHANGED <<accounts, reader, request, request_no, served>>

\* ---------------------------------------------------------------- POST /transfers
\* the amount check written with < : an amount of 0 is let through
execute_transfer_validate_zero_allowed(w) ==
    /\ pc[w] = "validate" /\ request[w].op = "TRANSFER"
    /\ IF request[w].amount < 0
       THEN Respond(w, "ValidationError")
       ELSE /\ pc' = [pc EXCEPT ![w] = "lock"]
            /\ UNCHANGED <<balance, outcome>>
    /\ StoreUnchanged
    /\ UNCHANGED <<accounts, reader, request, request_no, served>>

execute_transfer_validate(w) ==
    /\ pc[w] = "validate" /\ request[w].op = "TRANSFER"
    /\ IF request[w].amount <= 0
       THEN Respond(w, "ValidationError")
       ELSE /\ pc' = [pc EXCEPT ![w] = "lock"]
            /\ UNCHANGED <<balance, outcome>>
    /\ StoreUnchanged
    /\ UNCHANGED <<accounts, reader, request, request_no, served>>

\* the source query without with_for_update(): no row lock is waited for or taken
execute_transfer_lock_no_for_update(w) ==
    /\ pc[w] = "lock" /\ request[w].op = "TRANSFER"
    /\ IF request[w].source_account_id \notin accounts
       THEN /\ Rollback(w)
            /\ Respond(w, "NotFound")
       ELSE /\ pc' = [pc EXCEPT ![w] = "balance"]
            /\ UNCHANGED <<transactions, ledger_entries, flushed_tx,
                           flushed_entries, row_lock, balance, outcome>>
    /\ UNCHANGED <<accounts, reader, request, request_no, served>>

\* the destination row locked as well, after the source row
execute_transfer_lock_destination_too(w) ==
    /\ pc[w] = "lock" /\ request[w].op = "TRANSFER"
    /\ IF request[w].source_account_id \notin accounts
       THEN /\ Rollback(w)
            /\ Respond(w, "NotFound")
       ELSE IF row_lock[request[w].source_account_id] # w
       THEN /\ row_lock[request[w].source_account_id] = 0
            /\ row_lock' = [row_lock EXCEPT ![request[w].source_account_id] = w]
            /\ UNCHANGED <<transactions, ledger_entries, flushed_tx,
                           flushed_entries, pc, balance, outcome>>
       ELSE /\ request[w].destination_account_id \in accounts
               => row_lock[request[w].destination_account_id] \in {0, w}
            /\ row_lock' = [a \in AccountIds |->
                   IF a = request[w].destination_account_id THEN w ELSE row_lock[a]]
            /\ pc' = [pc EXCEPT ![w] = "balance"]
            /\ UNCHANGED <<transactions, ledger_entries, flushed_tx,
                           flushed_entries, balance, outcome>>
    /\ UNCHANGED <<accounts, reader, request, request_no, served>>

\* with_for_update() put on the destination row instead of the source row
execute_transfer_lock_wrong_row(w) ==
    /\ pc[w] = "lock" /\ request[w].op = "TRANSFER"
    /\ IF request[w].source_account_id \notin accounts
       THEN /\ Rollback(w)
            /\ Respond(w, "NotFound")
       ELSE /\ IF request[w].destination_account_id \in accounts
               THEN /\ row_lock[request[w].destination_account_id] = 0
                    /\ row_lock' =
                         [row_lock EXCEPT ![request[w].destination_account_id] = w]
               ELSE UNCHANGED row_lock
            /\ pc' = [pc EXCEPT ![w] = "balance"]
            /\ UNCHANGED <<transactions, ledger_entries, flushed_tx,
                           flushed_entries, balance, outcome>>
    /\ UNCHANGED <<accounts, reader, request, request_no, served>>

\* db.query(Account).filter(id == source_account_id).with_for_update().first()
execute_transfer_lock(w) ==
    /\ pc[w] = "lock" /\ request[w].op = "TRANSFER"
    /\ IF request[w].source_account_id \notin accounts
       THEN /\ Rollback(w)
            /\ Respond(w, "NotFound")
       ELSE /\ row_lock[request[w].source_account_id] = 0
            /\ row_lock' = [row_lock EXCEPT ![request[w].source_account_id] = w]
            /\ pc' = [pc EXCEPT ![w] = "balance"]
            /\ UNCHANGED <<transactions, ledger_entries, flushed_tx,
                           flushed_entries, balance, outcome>>
    /\ UNCHANGED <<accounts, reader, request, request_no, served>>

execute_transfer_balance(w) ==
    /\ pc[w] = "balance" /\ request[w].op = "TRANSFER"
    /\ balance' = [balance EXCEPT ![w] =
                      BalanceQuery(VisibleEntries(w), request[w].source_account_id)]
    /\ pc' = [pc EXCEPT ![w] = "check"]
    /\ StoreUnchanged
    /\ UNCHANGED <<accounts, reader, request, request_no, served, outcome>>

\* the rows written before the funds check, and the refusal returned as a response
\* instead of raised: the block is left normally and commits
execute_transfer_check_after_write(w) ==
    /\ pc[w] = "check" /\ request[w].op = "TRANSFER"
    /\ IF balance[w] < request[w].amount
       THEN /\ transactions' = transactions \cup {Transaction(w, "TRANSFER")}
            /\ ledger_entries' = ledger_entries \cup
                  {LedgerEntry(w, 1, request[w].source_account_id, "DEBIT",
                               request[w].amount),
                   LedgerEntry(w, 2, request[w].destination_account_id, "CREDIT",
                               request[w].amount)}
            /\ UNCHANGED <<flushed_tx, flushed_entries>>
            /\ ReleaseLocks(w)
            /\ Respond(w, "InsufficientFunds")
       ELSE /\ FlushTransaction(w, "TRANSFER")
            /\ pc' = [pc EXCEPT ![w] = "add_entry"]
            /\ UNCHANGED <<balance, outcome>>
    /\ UNCHANGED <<accounts, reader, request, request_no, served>>

execute_transfer_check(w) ==
    /\ pc[w] = "check" /\ request[w].op = "TRANSFER"
    /\ IF balance[w] < request[w].amount
       THEN /\ Rollback(w)
            /\ Respond(w, "InsufficientFunds")
       ELSE /\ FlushTransaction(w, "TRANSFER")
            /\ pc' = [pc EXCEPT ![w] = "add_entry"]
            /\ UNCHANGED <<balance, outcome>>
    /\ UNCHANGED <<accounts, reader, request, request_no, served>>

\* the destination entry written with the entry type of the source entry
execute_transfer_add_entries_both_debit(w) ==
    /\ pc[w] = "add_entry" /\ request[w].op = "TRANSFER"
    /\ LET debit_entry == LedgerEntry(w, 1, request[w].source_account_id, "DEBIT",
                                      request[w].amount)
           credit_entry == LedgerEntry(w, 2, request[w].destination_account_id,
                                       "DEBIT", request[w].amount)
       IN  IF ForeignKeysHold(w, debit_entry) /\ ForeignKeysHold(w, credit_entry)
           THEN /\ FlushEntries(w, {debit_entry, credit_entry})
                /\ pc' = [pc EXCEPT ![w] = "commit"]
                /\ UNCHANGED <<balance, outcome>>
           ELSE /\ Rollback(w)
                /\ Respond(w, "InternalFailure")
    /\ UNCHANGED <<accounts, reader, request, request_no, served>>

execute_transfer_add_entries(w) ==
    /\ pc[w] = "add_entry" /\ request[w].op = "TRANSFER"
    /\ LET debit_entry == LedgerEntry(w, 1, request[w].source_account_id, "DEBIT",
                                      request[w].amount)
           credit_entry == LedgerEntry(w, 2, request[w].destination_account_id,
                                       "CREDIT", request[w].amount)
       IN  IF ForeignKeysHold(w, debit_entry) /\ ForeignKeysHold(w, credit_entry)
           THEN /\ FlushEntries(w, {debit_entry, credit_entry})
                /\ pc' = [pc EXCEPT ![w] = "commit"]
                /\ UNCHANGED <<balance, outcome>>
           ELSE /\ Rollback(w)
                /\ Respond(w, "InternalFailure")
    /\ UNCHANGED <<accounts, reader, request, request_no, served>>

execute_transfer_commit(w) ==
    /\ pc[w] = "commit" /\ request[w].op = "TRANSFER"
    /\ Commit(w)
    /\ Respond(w, "Success")
    /\ UNCHANGED <<accounts, reader, request, request_no, served>>

\* ---------------------------------------------------------------- read endpoints
\* The client of the read endpoints sends one call at a time.  A read handler's
\* session has no writes of its own: each of its statements reads the committed rows.

\* the account query with with_for_update(): the read takes the row lock
get_account_details_for_update(account_id) ==
    /\ reader.op = "NONE"
    /\ account_id \in accounts \cup {UnknownId}
    /\ IF account_id \notin accounts
       THEN /\ reader' = [op |-> "GET_ACCOUNT", pc |-> "done",
                          account_id |-> account_id, status |-> "NotFound"]
            /\ UNCHANGED row_lock
       ELSE /\ row_lock[account_id] = 0
            /\ row_lock' = [row_lock EXCEPT ![account_id] = NumWorkers + 1]
            /\ reader' = [op |-> "GET_ACCOUNT", pc |-> "done",
                          account_id |-> account_id, status |-> "Success",
                          balance |-> BalanceQuery(ledger_entries, account_id)]
    /\ UNCHANGED <<accounts, transactions, ledger_entries, pc, request,
                   request_no, served, flushed_tx, flushed_entries, balance,
                   outcome>>

\* the balance query on a session that reads rows other sessions have not committed
get_account_details_read_uncommitted(account_id) ==
    /\ reader.op = "NONE"
    /\ account_id \in accounts \cup {UnknownId}
    /\ reader' =
         IF account_id \notin accounts
         THEN [op |-> "GET_ACCOUNT", pc |-> "done", account_id |-> account_id,
               status |-> "NotFound"]
         ELSE [op |-> "GET_ACCOUNT", pc |-> "done", account_id |-> account_id,
               status |-> "Success",
               balance |-> BalanceQuery(
                   ledger_entries \cup UNION {flushed_entries[w] : w \in DOMAIN pc},
                   account_id)]
    /\ UNCHANGED <<accounts, transactions, ledger_entries, row_lock, pc, request,
                   request_no, served, flushed_tx, flushed_entries, balance,
                   outcome>>

\* GET /accounts/{account_id}
get_account_details(account_id) ==
    /\ reader.op = "NONE"
    /\ account_id \in accounts \cup {UnknownId}
    /\ reader' =
         IF account_id \notin accounts
         THEN [op |-> "GET_ACCOUNT", pc |-> "done", account_id |-> account_id,
               status |-> "NotFound"]
         ELSE [op |-> "GET_ACCOUNT", pc |-> "done", account_id |-> account_id,
               status |-> "Success",
               balance |-> BalanceQuery(ledger_entries, account_id)]
    /\ UNCHANGED <<accounts, transactions, ledger_entries, row_lock, pc, request,
                   request_no, served, flushed_tx, flushed_entries, balance,
                   outcome>>

\* GET /accounts/{account_id}/ledger: the rows of the account (their order, by
\* created_at, is not carried: rows have no created_at here)
get_ledger_history(account_id) ==
    /\ reader.op = "NONE"
    /\ account_id \in accounts \cup {UnknownId}
    /\ reader' = [op |-> "GET_LEDGER", pc |-> "done", account_id |-> account_id,
                  entries |-> {e \in ledger_entries : e.account_id = account_id}]
    /\ UNCHANGED <<accounts, transactions, ledger_entries, row_lock, pc, request,
                   request_no, served, flushed_tx, flushed_entries, balance,
                   outcome>>

\* SELECT SUM(CASE ...) FROM ledger_entries: NULL (here <<>>) when there is no row
NetSumQuery(rows) == IF rows = {} THEN <<>> ELSE <<SignedSum(rows)>>

\* the grouping query with the comparison inverted: HAVING (COUNT(*) % 2) = 0
UnbalancedQuery_even(rows) ==
    {id \in {e.transaction_id : e \in rows} :
        Cardinality({e \in rows : e.transaction_id = id}) % 2 = 0}

\* SELECT transaction_id FROM ledger_entries GROUP BY transaction_id
\* HAVING (COUNT(*) % 2) != 0
UnbalancedQuery(rows) ==
    {id \in {e.transaction_id : e \in rows} :
        Cardinality({e \in rows : e.transaction_id = id}) % 2 # 0}

\* float(net_sum): a sum of NULL is not a number, the handler fails
AuditResponse_no_default(net_sum, unbalanced_txs) ==
    IF net_sum = <<>>
    THEN [op |-> "AUDIT", pc |-> "done", status |-> "InternalFailure"]
    ELSE [op |-> "AUDIT", pc |-> "done",
          total_system_liquidity |-> net_sum[1],
          unbalanced_transactions_count |-> Cardinality(unbalanced_txs),
          status |-> IF Cardinality(unbalanced_txs) = 0 THEN "Healthy"
                     ELSE "Integrity Compromised"]

\* the returned dict; float(net_sum or 0) keeps every sum the bounds allow exactly
AuditResponse(net_sum, unbalanced_txs) ==
    [op |-> "AUDIT", pc |-> "done",
     total_system_liquidity |->
         IF net_sum = <<>> THEN 0 ELSE IF net_sum[1] = 0 THEN 0 ELSE net_sum[1],
     unbalanced_transactions_count |-> Cardinality(unbalanced_txs),
     status |-> IF Cardinality(unbalanced_txs) = 0 THEN "Healthy"
                ELSE "Integrity Compromised"]

\* GET /audit/integrity-check, first statement
integrity_check_liquidity ==
    /\ reader.op = "NONE"
    /\ reader' = [op |-> "AUDIT", pc |-> "count",
                  net_sum |-> NetSumQuery(ledger_entries)]
    /\ UNCHANGED <<accounts, transactions, ledger_entries, row_lock, pc, request,
                   request_no, served, flushed_tx, flushed_entries, balance,
                   outcome>>

\* GET /audit/integrity-check, second statement and the response
integrity_check_count ==
    /\ reader.op = "AUDIT" /\ reader.pc = "count"
    /\ reader' = AuditResponse(reader.net_sum, UnbalancedQuery(ledger_entries))
    /\ UNCHANGED <<accounts, transactions, ledger_entries, row_lock, pc, request,
                   request_no, served, flushed_tx, flushed_entries, balance,
                   outcome>>

\* the client has its response and can send the next call
reader_return ==
    /\ reader.op # "NONE" /\ reader.pc = "done"
    /\ reader' = NoRequest
    /\ UNCHANGED <<accounts, transactions, ledger_entries, row_lock, pc, request,
                   request_no, served, flushed_tx, flushed_entries, balance,
                   outcome>>

\* ---------------------------------------------------------------- specification
Next ==
    \/ create_new_account
    \/ \E w \in Workers : Receive(w)
    \/ \E w \in Workers : Return(w)
    \/ \E w \in Workers : deposit_funds_validate(w)
    \/ \E w \in Workers : deposit_funds_add_tx(w)
    \/ \E w \in Workers : deposit_funds_add_entry(w)
    \/ \E w \in Workers : deposit_funds_commit(w)
    \/ \E w \in Workers : withdraw_funds_validate(w)
    \/ \E w \in Workers : withdraw_funds_lock(w)
    \/ \E w \in Workers : withdraw_funds_balance(w)
    \/ \E w \in Workers : withdraw_funds_check(w)
    \/ \E w \in Workers : withdraw_funds_add_entry(w)
    \/ \E w \in Workers : withdraw_funds_commit(w)
    \/ \E w \in Workers : execute_transfer_validate(w)
    \/ \E w \in Workers : execute_transfer_lock(w)
    \/ \E w \in Workers : execute_transfer_balance(w)
    \/ \E w \in Workers : execute_transfer_check(w)
    \/ \E w \in Workers : execute_transfer_add_entries(w)
    \/ \E w \in Workers : execute_transfer_commit(w)

Spec == Init /\ [][Next]_vars

\* the steps of the handler that worker w runs
Handler(w) ==
    \/ deposit_funds_validate(w)
    \/ deposit_funds_add_tx(w)
    \/ deposit_funds_add_entry(w)
    \/ deposit_funds_commit(w)
    \/ withdraw_funds_validate(w)
    \/ withdraw_funds_lock(w)
    \/ withdraw_funds_balance(w)
    \/ withdraw_funds_check(w)
    \/ withdraw_funds_add_entry(w)
    \/ withdraw_funds_commit(w)
    \/ execute_transfer_validate(w)
    \/ execute_transfer_lock(w)
    \/ execute_transfer_balance(w)
    \/ execute_transfer_check(w)
    \/ execute_transfer_add_entries(w)
    \/ execute_transfer_commit(w)

\* every worker thread that can take a step eventually takes one
FairSpec == Spec /\ \A w \in Workers : WF_vars(Handler(w))

\* ---------------------------------------------------------------- reads beside writes
NextReads ==
    \/ create_new_account
    \/ \E w \in DOMAIN pc : Receive(w)
    \/ \E w \in DOMAIN pc : Return(w)
    \/ \E w \in DOMAIN pc : deposit_funds_validate(w)
    \/ \E w \in DOMAIN pc : deposit_funds_add_tx(w)
    \/ \E w \in DOMAIN pc : deposit_funds_add_entry(w)
    \/ \E w \in DOMAIN pc : deposit_funds_commit(w)
    \/ \E w \in DOMAIN pc : withdraw_funds_validate(w)
    \/ \E w \in DOMAIN pc : withdraw_funds_lock(w)
    \/ \E w \in DOMAIN pc : withdraw_funds_balance(w)
    \/ \E w \in DOMAIN pc : withdraw_funds_check(w)
    \/ \E w \in DOMAIN pc : withdraw_funds_add_entry(w)
    \/ \E w \in DOMAIN pc : withdraw_funds_commit(w)
    \/ \E w \in DOMAIN pc : execute_transfer_validate(w)
    \/ \E w \in DOMAIN pc : execute_transfer_lock(w)
    \/ \E w \in DOMAIN pc : execute_transfer_balance(w)
    \/ \E w \in DOMAIN pc : execute_transfer_check(w)
    \/ \E w \in DOMAIN pc : execute_transfer_add_entries(w)
    \/ \E w \in DOMAIN pc : execute_transfer_commit(w)
    \/ \E a \in AccountIds \cup {UnknownId} : get_account_details(a)
    \/ \E a \in AccountIds \cup {UnknownId} : get_ledger_history(a)
    \/ integrity_check_liquidity
    \/ integrity_check_count
    \/ reader_return

\* the empty store, one worker for the transaction endpoints, and the reader
InitReads ==
    /\ accounts = {}
    /\ transactions = {}
    /\ ledger_entries = {}
    /\ row_lock = [a \in AccountIds |-> 0]
    /\ pc = [w \in {1} |-> "idle"]
    /\ request = [w \in {1} |-> NoRequest]
    /\ request_no = [w \in {1} |-> 0]
    /\ served = 0
    /\ flushed_tx = [w \in {1} |-> {}]
    /\ flushed_entries = [w \in {1} |-> {}]
    /\ balance = [w \in {1} |-> 0]
    /\ outcome = [w \in {1} |-> "none"]
    /\ reader = NoRequest

SpecReads == InitReads /\ [][NextReads]_vars

\* ---------------------------------------------------------------- concurrent callers
\* run_concurrency_test: two accounts exist, the first request (a deposit) has put
\* funding > 0 into account 1 (nothing when funding = 0), and n callers send the same
\* withdrawal from account 1, or the same transfer from account 1 to account 2, at
\* the same time.
SourceId == 1
DestinationId == 2
FundingRequestNo == 1

InitConcurrent ==
    \E funding \in 0..MaxBalance, amount \in 1..MaxAmount, n \in 1..MaxConcurrent,
       op \in {"WITHDRAWAL", "TRANSFER"} :
        /\ accounts = {SourceId, DestinationId}
        /\ transactions =
              IF funding > 0
              THEN {[id |-> FundingRequestNo, type |-> "DEPOSIT", status |-> "COMPLETED"]}
              ELSE {}
        /\ ledger_entries =
              IF funding > 0
              THEN {[id |-> FundingRequestNo, account_id |-> SourceId,
                     transaction_id |-> FundingRequestNo, entry_type |-> "CREDIT",
                     amount |-> funding]}
              ELSE {}
        /\ row_lock = [a \in AccountIds |-> 0]
        /\ pc = [w \in 1..n |-> "validate"]
        /\ request = [w \in 1..n |->
              IF op = "WITHDRAWAL"
              THEN [op |-> "WITHDRAWAL", account_id |-> SourceId, amount |-> amount]
              ELSE [op |-> "TRANSFER", source_account_id |-> SourceId,
                    destination_account_id |-> DestinationId, amount |-> amount]]
        /\ request_no = [w \in 1..n |-> FundingRequestNo + w]
        /\ served = FundingRequestNo + n
        /\ flushed_tx = [w \in 1..n |-> {}]
        /\ flushed_entries = [w \in 1..n |-> {}]
        /\ balance = [w \in 1..n |-> 0]
        /\ outcome = [w \in 1..n |-> "none"]
        /\ reader = NoRequest

NextConcurrent ==
    \/ \E w \in DOMAIN pc : withdraw_funds_validate(w)
    \/ \E w \in DOMAIN pc : withdraw_funds_lock(w)
    \/ \E w \in DOMAIN pc : withdraw_funds_balance(w)
    \/ \E w \in DOMAIN pc : withdraw_funds_check(w)
    \/ \E w \in DOMAIN pc : withdraw_funds_add_entry(w)
    \/ \E w \in DOMAIN pc : withdraw_funds_commit(w)
    \/ \E w \in DOMAIN pc : execute_transfer_validate(w)
    \/ \E w \in DOMAIN pc : execute_transfer_lock(w)
    \/ \E w \in DOMAIN pc : execute_transfer_balance(w)
    \/ \E w \in DOMAIN pc : execute_transfer_check(w)
    \/ \E w \in DOMAIN pc : execute_transfer_add_entries(w)
    \/ \E w \in DOMAIN pc : execute_transfer_commit(w)

SpecConcurrent == InitConcurrent /\ [][NextConcurrent]_vars

\* ---------------------------------------------------------------- properties
Callers == DOMAIN pc
AllDone == \A w \in Callers : pc[w] = "done"
Succeeded == {w \in Callers : pc[w] = "done" /\ outcome[w] = "Success"}
Refused == {w \in Callers : pc[w] = "done" /\ outcome[w] = "InsufficientFunds"}
Min(a, b) == IF a <= b THEN a ELSE b

\* the rows of the funding deposit of InitConcurrent, and what it put into the source
FundingEntries == {e \in ledger_entries : e.transaction_id = FundingRequestNo}
Funding == BalanceQuery(FundingEntries, SourceId)

\* C1: in every committed state the balance of every account (credits minus
\* debits of its committed entries) is >= 0, whatever the interleaving of deposits,
\* withdrawals and transfers.
C1_NonNegativeBalances ==
    \A a \in AccountIds \cup {UnknownId} : BalanceQuery(ledger_entries, a) >= 0

\* C1 witness: a withdrawal or transfer was refused for insufficient funds while
\* another debit of the same account, made from money that was there, is committed.
C1_Witness ==
    \E w \in Callers :
        /\ pc[w] = "done" /\ outcome[w] = "InsufficientFunds"
        /\ \E e \in ledger_entries :
              /\ e.entry_type = "DEBIT"
              /\ e.account_id = (IF request[w].op = "TRANSFER"
                                 THEN request[w].source_account_id
                                 ELSE request[w].account_id)

\* C2: n concurrent transfers of the same amount from a source holding Funding, with
\* n * amount >= Funding: once all have ended, Funding \div amount of them succeeded,
\* the others were refused with InsufficientFunds, the source holds the remainder,
\* the destination holds what was moved, and two entries exist per success.
C2_ConcurrentTransfers ==
    LET n == Cardinality(Callers)
        amount == request[1].amount
        k == Funding \div amount
    IN  (/\ AllDone
         /\ \A w \in Callers : request[w].op = "TRANSFER"
         /\ n * amount >= Funding)
        => /\ Cardinality(Succeeded) = k
           /\ Cardinality(Refused) = n - k
           /\ BalanceQuery(ledger_entries, SourceId) = Funding - k * amount
           /\ BalanceQuery(ledger_entries, DestinationId) = k * amount
           /\ Cardinality(ledger_entries \ FundingEntries) = 2 * k

\* C2 witness: all transfers have ended, some succeeded and some were refused.
C2_Witness ==
    /\ AllDone
    /\ \A w \in Callers : request[w].op = "TRANSFER"
    /\ Cardinality(Callers) * request[1].amount >= Funding
    /\ Succeeded # {}
    /\ Refused # {}

\* C3 as stated: n concurrent withdrawals of the same amount from an account holding
\* Funding: for every Funding, n and amount, Funding \div amount of them succeed, the
\* others are refused with InsufficientFunds, and the account holds the remainder.
C3_Original ==
    LET n == Cardinality(Callers)
        amount == request[1].amount
        k == Funding \div amount
    IN  (/\ AllDone
         /\ \A w \in Callers : request[w].op = "WITHDRAWAL")
        => /\ Cardinality(Succeeded) = k
           /\ Cardinality(Refused) = n - k
           /\ BalanceQuery(ledger_entries, SourceId) = Funding - k * amount

\* C3 amended: the number of withdrawals that succeed is the smaller of n and
\* Funding \div amount; the others are refused with InsufficientFunds, and the
\* account holds Funding less what the successful ones took.
C3_ConcurrentWithdrawals ==
    LET n == Cardinality(Callers)
        amount == request[1].amount
        k == Min(n, Funding \div amount)
    IN  (/\ AllDone
         /\ \A w \in Callers : request[w].op = "WITHDRAWAL")
        => /\ Cardinality(Succeeded) = k
           /\ Cardinality(Refused) = n - k
           /\ BalanceQuery(ledger_entries, SourceId) = Funding - k * amount

\* C3 witness: all withdrawals have ended, some succeeded and some were refused.
C3_Witness ==
    /\ AllDone
    /\ \A w \in Callers : request[w].op = "WITHDRAWAL"
    /\ Succeeded # {}
    /\ Refused # {}

EntriesOf(t) == {e \in ledger_entries : e.transaction_id = t.id}
\* the account whose balance gates worker w's withdrawal or transfer
GatedAccount(w) ==
    IF request[w].op = "TRANSFER" THEN request[w].source_account_id
    ELSE request[w].account_id
\* the committed rows made for worker w's request
RowsOf(w) ==
    {t \in transactions : t.id = request_no[w]}
    \cup {e \in ledger_entries : e.transaction_id = request_no[w]}

\* C4: atomicity: in every state, every committed Transaction has its full entry
\* set (one entry for a DEPOSIT or WITHDRAWAL, two for a TRANSFER) and every
\* committed LedgerEntry belongs to a committed Transaction, also while other
\* operations are part-way through and after refusals and unexpected failures.
C4_Atomicity ==
    /\ \A t \in transactions :
          Cardinality(EntriesOf(t)) = (IF t.type = "TRANSFER" THEN 2 ELSE 1)
    /\ \A e \in ledger_entries : \E t \in transactions : t.id = e.transaction_id

\* C4 witness: a request has ended in an unexpected failure after its Transaction
\* row was inserted, a Transaction is committed, and another operation has inserted
\* its Transaction row and not yet its entries.
C4_Witness ==
    /\ transactions # {}
    /\ \E w \in Callers : pc[w] = "done" /\ outcome[w] = "InternalFailure"
    /\ \E v \in Callers : flushed_tx[v] # {} /\ flushed_entries[v] = {}

\* C5: the step in which a withdrawal or transfer is refused with InsufficientFunds
\* changes no committed row (so no balance), keeps nothing pending in its session,
\* and no committed Transaction or LedgerEntry was made for the request.
C5_RefusalLeavesStoreUnchanged ==
    [][\A w \in Callers :
          (pc[w] # "done" /\ pc'[w] = "done" /\ outcome'[w] = "InsufficientFunds")
          => /\ request[w].op \in {"WITHDRAWAL", "TRANSFER"}
             /\ balance[w] < request[w].amount
             /\ transactions' = transactions
             /\ ledger_entries' = ledger_entries
             /\ flushed_tx'[w] = {} /\ flushed_entries'[w] = {}
             /\ \A t \in transactions' : t.id # request_no[w]
             /\ \A e \in ledger_entries' : e.transaction_id # request_no[w]]_vars

\* C5 witness: a transfer was refused with InsufficientFunds while the store holds
\* committed rows and its source holds less than the amount, but not nothing.
C5_Witness ==
    \E w \in Callers :
        /\ pc[w] = "done" /\ outcome[w] = "InsufficientFunds"
        /\ request[w].op = "TRANSFER"
        /\ BalanceQuery(ledger_entries, request[w].source_account_id) > 0
        /\ RowsOf(w) = {}

\* C6 as stated: every committed TRANSFER has exactly two entries, one DEBIT and one
\* CREDIT of equal amount on two distinct accounts; every committed DEPOSIT has
\* exactly one CREDIT entry and every committed WITHDRAWAL exactly one DEBIT entry.
C6_EntryShape ==
    \A t \in transactions :
        LET es == EntriesOf(t)
        IN  IF t.type = "TRANSFER"
            THEN /\ Cardinality(es) = 2
                 /\ \E d \in es, c \in es :
                       /\ d.entry_type = "DEBIT" /\ c.entry_type = "CREDIT"
                       /\ d.amount = c.amount
                       /\ d.account_id # c.account_id
            ELSE /\ Cardinality(es) = 1
                 /\ \A e \in es :
                       e.entry_type = (IF t.type = "DEPOSIT" THEN "CREDIT" ELSE "DEBIT")

\* C7 as stated: a deposit of an amount > 0 to an account id that no account has
\* ends with NotFound and persists no Transaction and no LedgerEntry.
C7_DepositUnknownAccount ==
    \A w \in Callers :
        (/\ pc[w] = "done" /\ request[w].op = "DEPOSIT"
         /\ request[w].amount > 0
         /\ request[w].account_id \notin accounts)
        => (outcome[w] = "NotFound" /\ RowsOf(w) = {})

\* C8: referential integrity: in every state every committed LedgerEntry's
\* account_id is the id of an existing Account and its transaction_id the id of a
\* committed Transaction, also after deposits to an unknown account and transfers
\* to an unknown destination.
C8_ReferentialIntegrity ==
    \A e \in ledger_entries :
        /\ e.account_id \in accounts
        /\ e.transaction_id \in {t.id : t \in transactions}

\* C8 witness: a transfer with a known, funded source and an unknown destination
\* has ended, and the ledger holds entries.
C8_Witness ==
    \E w \in Callers :
        /\ pc[w] = "done" /\ request[w].op = "TRANSFER"
        /\ request[w].amount > 0
        /\ request[w].source_account_id \in accounts
        /\ request[w].destination_account_id \notin accounts
        /\ BalanceQuery(ledger_entries, request[w].source_account_id)
             >= request[w].amount
        /\ outcome[w] = "InternalFailure"

\* C9: a deposit, withdrawal or transfer with amount <= 0 never gets past the
\* amount check: it ends with ValidationError, also when its account is unknown,
\* holds no row lock, has inserted nothing and has no committed row.
C9_NonPositiveAmountRejected ==
    \A w \in Callers :
        (request[w].op # "NONE" /\ request[w].amount <= 0)
        => /\ pc[w] \in {"validate", "done"}
           /\ pc[w] = "done" => outcome[w] = "ValidationError"
           /\ \A a \in AccountIds : row_lock[a] # w
           /\ flushed_tx[w] = {} /\ flushed_entries[w] = {}
           /\ RowsOf(w) = {}

\* C9 witness: a withdrawal of an amount <= 0 from an unknown account has ended with
\* ValidationError.
C9_Witness ==
    \E w \in Callers :
        /\ pc[w] = "done" /\ request[w].op = "WITHDRAWAL"
        /\ request[w].amount <= 0
        /\ request[w].account_id \notin accounts
        /\ outcome[w] = "ValidationError"

InFlight == {w \in Callers : pc[w] \notin {"idle", "done"}}
\* worker w waits for a row lock that another session holds
Blocked(w) ==
    /\ pc[w] = "lock"
    /\ GatedAccount(w) \in accounts
    /\ row_lock[GatedAccount(w)] # 0

\* C10: no deadlock: in no state is every unfinished operation waiting for a row
\* lock, and under fair scheduling every operation that has started ends.
C10_NoDeadlock ==
    /\ [](InFlight # {} => \E w \in InFlight : ~Blocked(w))
    /\ \A w \in Workers : (pc[w] \notin {"idle", "done"}) ~> (pc[w] = "done")

\* C10 witness: two transfers in opposite directions between the same two accounts
\* are in flight, each holding the lock of its own source.
C10_Witness ==
    \E w \in Callers, v \in Callers :
        /\ request[w].op = "TRANSFER" /\ request[v].op = "TRANSFER"
        /\ request[w].source_account_id # request[w].destination_account_id
        /\ request[w].source_account_id = request[v].destination_account_id
        /\ request[w].destination_account_id = request[v].source_account_id
        /\ request[w].source_account_id \in accounts
        /\ request[v].source_account_id \in accounts
        /\ row_lock[request[w].source_account_id] = w
        /\ row_lock[request[v].source_account_id] = v

\* ---------------------------------------------------------------- balances
\* the sum of the amounts of a set of entries
RECURSIVE SumAmounts(_)
SumAmounts(rows) ==
    IF rows = {} THEN 0
    ELSE LET e == CHOOSE x \in rows : TRUE
         IN  e.amount + SumAmounts(rows \ {e})

\* the committed entries of account a of one entry type
CommittedEntries(a, entry_type) ==
    {e \in ledger_entries : e.account_id = a /\ e.entry_type = entry_type}

\* committed credits minus committed debits of account a
CommittedBalance(a) ==
    SumAmounts(CommittedEntries(a, "CREDIT")) - SumAmounts(CommittedEntries(a, "DEBIT"))

\* what the committed transactions of one type put on one side of account a
Accepted(a, type, entry_type) ==
    SumAmounts({e \in CommittedEntries(a, entry_type) :
                   \E t \in transactions : t.id = e.transaction_id /\ t.type = type})

\* C11: the balance returned by GET /accounts/{id}, and the balance a withdrawal or
\* transfer reads before its funds check, is the sum of the account's committed
\* CREDIT entries minus the sum of its committed DEBIT entries (0 without entries),
\* which is accepted deposits plus incoming transfers minus accepted withdrawals
\* minus outgoing transfers; rows that are not committed are not counted.
C11_ReportedBalance ==
    [][/\ (reader.op = "NONE" /\ reader'.op = "GET_ACCOUNT"
            /\ reader'.status = "Success")
          => /\ reader'.balance = CommittedBalance(reader'.account_id)
             /\ CommittedEntries(reader'.account_id, "CREDIT")
                   \cup CommittedEntries(reader'.account_id, "DEBIT") = {}
                 => reader'.balance = 0
             /\ reader'.balance =
                   Accepted(reader'.account_id, "DEPOSIT", "CREDIT")
                   + Accepted(reader'.account_id, "TRANSFER", "CREDIT")
                   - Accepted(reader'.account_id, "WITHDRAWAL", "DEBIT")
                   - Accepted(reader'.account_id, "TRANSFER", "DEBIT")
       /\ \A w \in Callers :
             (pc[w] = "balance" /\ pc'[w] = "check")
             => balance'[w] = CommittedBalance(GatedAccount(w))]_vars

\* C11 witness: GET /accounts/{id} has returned a balance > 0 that is the committed
\* one, while a handler holds an inserted, uncommitted entry of the same account.
C11_Witness ==
    /\ reader.op = "GET_ACCOUNT" /\ reader.status = "Success"
    /\ reader.balance > 0
    /\ reader.balance = CommittedBalance(reader.account_id)
    /\ \E w \in Callers : \E e \in flushed_entries[w] :
          e.account_id = reader.account_id

\* ---------------------------------------------------------------- the audit
\* the step in which GET /audit/integrity-check runs its second statement and returns
AuditReturns ==
    reader.op = "AUDIT" /\ reader.pc = "count" /\ reader'.pc = "done"

\* the committed transactions of one type
Committed(type) == {t \in transactions : t.type = type}

\* C12: the integrity check returns as unbalanced_transactions_count the number of
\* committed transactions with an odd number of entries, and Healthy exactly when
\* that is 0; the count is the number of committed deposits plus withdrawals
\* (transfers add nothing), so with one of them committed the status is
\* Integrity Compromised.
C12_UnbalancedCount ==
    [][AuditReturns
       => /\ reader'.unbalanced_transactions_count =
                Cardinality({t \in transactions : Cardinality(EntriesOf(t)) % 2 = 1})
          /\ reader'.status = "Healthy" <=> reader'.unbalanced_transactions_count = 0
          /\ reader'.status \in {"Healthy", "Integrity Compromised"}
          /\ reader'.unbalanced_transactions_count =
                Cardinality(Committed("DEPOSIT")) + Cardinality(Committed("WITHDRAWAL"))
          /\ Committed("DEPOSIT") \cup Committed("WITHDRAWAL") # {}
             => reader'.status = "Integrity Compromised"]_vars

\* C12 witness: the check has returned Integrity Compromised with a count of 1 on a
\* store that holds a committed transfer beside the deposit that funded it.
C12_Witness ==
    /\ reader.op = "AUDIT" /\ reader.pc = "done"
    /\ reader.status = "Integrity Compromised"
    /\ reader.unbalanced_transactions_count = 1
    /\ Committed("TRANSFER") # {}
    /\ Cardinality(Committed("DEPOSIT")) = 1

\* C13: the integrity check on a store without ledger entries returns
\* total_system_liquidity 0, unbalanced_transactions_count 0 and status Healthy.
C13_EmptyLedgerAudit ==
    [][(AuditReturns /\ ledger_entries = {})
       => /\ reader'.status = "Healthy"
          /\ reader'.total_system_liquidity = 0
          /\ reader'.unbalanced_transactions_count = 0]_vars

\* C13 witness: the check has returned Healthy with liquidity 0 on a store that has
\* an account and no entry, after a request was refused.
C13_Witness ==
    /\ reader.op = "AUDIT" /\ reader.pc = "done"
    /\ reader.status = "Healthy" /\ reader.total_system_liquidity = 0
    /\ ledger_entries = {} /\ accounts # {}
    /\ \E w \in Callers :
          pc[w] = "done" /\ outcome[w] \in {"ValidationError", "NotFound",
                                            "InsufficientFunds", "InternalFailure"}

\* ---------------------------------------------------------------- pure reads
\* a step of a read handler: a call starts, runs a statement, or its response is taken
ReadStep == reader' # reader

\* C14: GET /accounts/{id}, GET /accounts/{id}/ledger and the integrity check change
\* no row of accounts, transactions or ledger_entries, committed or pending, and
\* take no row lock; what each statement returns is determined by the call's
\* argument and the committed rows alone, so two calls with the same argument and
\* the same committed rows return the same.
C14_PureReads ==
    [][ReadStep
       => /\ UNCHANGED <<accounts, transactions, ledger_entries, row_lock,
                         flushed_tx, flushed_entries, pc, outcome>>
          /\ reader'.op = "GET_ACCOUNT"
             => reader' =
                  IF reader'.account_id \in accounts
                  THEN [op |-> "GET_ACCOUNT", pc |-> "done",
                        account_id |-> reader'.account_id, status |-> "Success",
                        balance |-> CommittedBalance(reader'.account_id)]
                  ELSE [op |-> "GET_ACCOUNT", pc |-> "done",
                        account_id |-> reader'.account_id, status |-> "NotFound"]
          /\ reader'.op = "GET_LEDGER"
             => reader'.entries = CommittedEntries(reader'.account_id, "CREDIT")
                                  \cup CommittedEntries(reader'.account_id, "DEBIT")
          /\ (reader'.op = "AUDIT" /\ reader'.pc = "count")
             => reader'.net_sum =
                  IF ledger_entries = {} THEN <<>>
                  ELSE <<SumAmounts({e \in ledger_entries : e.entry_type = "CREDIT"})
                         - SumAmounts({e \in ledger_entries : e.entry_type = "DEBIT"})>>
          /\ AuditReturns
             => /\ reader'.total_system_liquidity =
                     (IF reader.net_sum = <<>> THEN 0 ELSE reader.net_sum[1])
                /\ reader'.unbalanced_transactions_count =
                     Cardinality({id \in {e.transaction_id : e \in ledger_entries} :
                        Cardinality({e \in ledger_entries : e.transaction_id = id}) % 2
                          = 1})]_vars

\* C14 witness: the ledger of an account has been returned with its committed
\* entries while a withdrawal or transfer holds the row lock of that account and
\* has inserted rows it has not committed.
C14_Witness ==
    /\ reader.op = "GET_LEDGER" /\ reader.entries # {}
    /\ reader.entries = {e \in ledger_entries : e.account_id = reader.account_id}
    /\ \E w \in Callers :
          /\ row_lock[reader.account_id] = w
          /\ flushed_entries[w] # {}

\* ---------------------------------------------------------------- credits
\* worker w's session commits in this step
Commits(w) == pc[w] = "commit" /\ pc'[w] = "done"

\* worker w is at a step of a deposit, or at a step of a transfer past its own lock
Crediting(w) ==
    \/ request[w].op = "DEPOSIT" /\ pc[w] \in {"validate", "add_tx", "add_entry", "commit"}
    \/ request[w].op = "TRANSFER" /\ pc[w] \in {"balance", "check", "add_entry", "commit"}

\* C15: credits to one account commute and do not wait: the commit of a deposit to X
\* raises the balance of X by its amount and the commit of a transfer into X raises
\* it by its amount (and lowers the source by it), whatever was committed before and
\* whatever is pending, so every commit order ends in the same balance; and every
\* step of a deposit, and every step of a transfer once it holds its source, can be
\* taken whoever holds the row lock of X.
C15_CreditsCommute ==
    /\ [][\A w \in Callers : \A a \in AccountIds :
             /\ (Commits(w) /\ request[w].op = "DEPOSIT")
                => CommittedBalance(a)' = CommittedBalance(a)
                      + (IF a = request[w].account_id THEN request[w].amount ELSE 0)
             /\ (Commits(w) /\ request[w].op = "TRANSFER")
                => CommittedBalance(a)' = CommittedBalance(a)
                      + (IF a = request[w].destination_account_id
                         THEN request[w].amount ELSE 0)
                      - (IF a = request[w].source_account_id
                         THEN request[w].amount ELSE 0)]_vars
    /\ [](\A w \in Callers :
             /\ Crediting(w) => ENABLED Handler(w)
             /\ request[w].op = "DEPOSIT" => \A a \in AccountIds : row_lock[a] # w
             /\ request[w].op = "TRANSFER"
                => \A a \in AccountIds :
                      row_lock[a] = w => a = request[w].source_account_id)

\* C15 witness: a deposit to X has committed after a withdrawal or transfer that
\* still holds the row lock of X read the balance of X.
C15_Witness ==
    \E v \in Callers, w \in Callers :
        /\ request[v].op \in {"WITHDRAWAL", "TRANSFER"}
        /\ pc[v] \in {"check", "add_entry", "commit"}
        /\ row_lock[GatedAccount(v)] = v
        /\ pc[w] = "done" /\ outcome[w] = "Success" /\ request[w].op = "DEPOSIT"
        /\ request[w].account_id = GatedAccount(v)
        /\ CommittedBalance(GatedAccount(v)) > balance[v]

\* ---------------------------------------------------------------- replayed deposit
\* two workers have each ended the same deposit call successfully
SameDepositTwice(w, v) ==
    /\ w # v
    /\ pc[w] = "done" /\ pc[v] = "done"
    /\ request[w].op = "DEPOSIT" /\ request[v] = request[w]
    /\ outcome[w] = "Success" /\ outcome[v] = "Success"

\* C16: a deposit is not idempotent: when the same Deposit(account_id, amount) has
\* been accepted twice, the store holds two DEPOSIT transactions with distinct ids
\* and two CREDIT entries with distinct ids, one per transaction, and the balance of
\* the account is 2 * amount above what it is without them.
C16_DepositNotIdempotent ==
    \A w \in Callers, v \in Callers :
        SameDepositTwice(w, v)
        => LET ids == {TransactionId(w), TransactionId(v)}
               txs == {t \in transactions : t.id \in ids}
               es == {e \in ledger_entries : e.transaction_id \in ids}
           IN  /\ Cardinality({t.id : t \in txs}) = 2
               /\ \A t \in txs : t.type = "DEPOSIT"
               /\ Cardinality({e.id : e \in es}) = 2
               /\ Cardinality({e.transaction_id : e \in es}) = 2
               /\ \A e \in es : /\ e.entry_type = "CREDIT"
                                /\ e.account_id = request[w].account_id
                                /\ e.amount = request[w].amount
               /\ CommittedBalance(request[w].account_id) =
                     SumAmounts(CommittedEntries(request[w].account_id, "CREDIT") \ es)
                     - SumAmounts(CommittedEntries(request[w].account_id, "DEBIT"))
                     + 2 * request[w].amount

\* C16 witness: the same deposit has been accepted twice.
C16_Witness ==
    \E w \in Callers, v \in Callers :
        /\ SameDepositTwice(w, v)
        /\ Cardinality(transactions) >= 2
        /\ CommittedBalance(request[w].account_id) >= 2 * request[w].amount

\* ---------------------------------------------------------------- append-only
\* C17: the ledger is append-only: every step keeps every committed Transaction and
\* every committed LedgerEntry with all its field values, and adds no second row
\* under an id that is taken; the two tables only grow.
C17_AppendOnly ==
    [][/\ transactions \subseteq transactions'
       /\ ledger_entries \subseteq ledger_entries'
       /\ \A t \in transactions' : \A u \in transactions : t.id = u.id => t = u
       /\ \A e \in ledger_entries' : \A f \in ledger_entries : e.id = f.id => e = f]_vars

\* C17 witness: two transactions are committed, the later one a withdrawal or
\* transfer out of an account the earlier ones paid into, and a request has been
\* rolled back.
C17_Witness ==
    /\ Cardinality(transactions) >= 2
    /\ \E e \in ledger_entries, f \in ledger_entries :
          /\ e.entry_type = "CREDIT" /\ f.entry_type = "DEBIT"
          /\ e.account_id = f.account_id /\ e.transaction_id # f.transaction_id
    /\ \E w \in Callers :
          pc[w] = "done" /\ outcome[w] \in {"InsufficientFunds", "InternalFailure"}

\* ---------------------------------------------------------------- mutual exclusion
\* worker w is between its locking read of the account row and its commit: at the
\* balance read, the funds check, or the writes of a withdrawal or transfer
InCriticalSection(w) ==
    /\ request[w].op \in {"WITHDRAWAL", "TRANSFER"}
    /\ pc[w] \in {"balance", "check", "add_entry", "commit"}

\* C18: mutual exclusion per account: a withdrawal or transfer that is at its balance
\* read, funds check or writes holds the row lock of the account that gates it, so
\* no two of them gated on the same account are there together; a holder never
\* waits, and an operation whose account's lock is free is never kept from taking
\* it by locks held on other accounts.
C18_MutualExclusion ==
    /\ \A w \in Callers :
          InCriticalSection(w)
          => /\ GatedAccount(w) \in accounts
             /\ row_lock[GatedAccount(w)] = w
             /\ ENABLED Handler(w)
    /\ \A w \in Callers, v \in Callers :
          (InCriticalSection(w) /\ InCriticalSection(v)
           /\ GatedAccount(w) = GatedAccount(v))
          => w = v
    /\ \A a \in AccountIds :
          row_lock[a] # 0
          => (row_lock[a] \in Callers /\ InCriticalSection(row_lock[a])
              /\ GatedAccount(row_lock[a]) = a)
    /\ \A w \in Callers :
          (/\ request[w].op \in {"WITHDRAWAL", "TRANSFER"} /\ pc[w] = "lock"
           /\ GatedAccount(w) \in accounts => row_lock[GatedAccount(w)] = 0)
          => ENABLED Handler(w)

\* C18 witness: two operations gated on different accounts are both between their
\* balance read and their commit, each holding its own lock, one of them a transfer
\* into the account the other one holds.
C18_Witness ==
    \E w \in Callers, v \in Callers :
        /\ InCriticalSection(w) /\ InCriticalSection(v)
        /\ GatedAccount(w) # GatedAccount(v)
        /\ request[w].op = "TRANSFER"
        /\ request[w].destination_account_id = GatedAccount(v)
        /\ pc[w] = "commit" /\ pc[v] = "check"

\* ---------------------------------------------------------------- lock release
\* C19: lock release on every exit path: the step in which a withdrawal or transfer
\* ends, with whatever outcome, leaves it without any row lock, no ended or idle
\* worker holds one, and under fair scheduling an operation that waits for a row
\* lock comes to a point where it does not wait.
C19_LockRelease ==
    /\ [][\A w \in Callers :
             (pc[w] # "done" /\ pc'[w] = "done")
             => \A a \in AccountIds : row_lock'[a] # w]_vars
    /\ [](\A w \in Callers :
             pc[w] \in {"idle", "done"} => \A a \in AccountIds : row_lock[a] # w)
    /\ \A w \in Workers : Blocked(w) ~> ~Blocked(w)

\* C19 witness: a transfer that held the row lock of its source has ended in an
\* unexpected failure, and the other worker now holds that lock.
C19_Witness ==
    \E w \in Callers, v \in Callers :
        /\ w # v
        /\ pc[w] = "done" /\ outcome[w] = "InternalFailure"
        /\ request[w].op = "TRANSFER"
        /\ request[w].source_account_id \in accounts
        /\ row_lock[request[w].source_account_id] = v

\* ---------------------------------------------------------------- liquidity
\* total_system_liquidity as GET /audit/integrity-check reports it on the committed rows
Liquidity ==
    AuditResponse(NetSumQuery(ledger_entries),
                  UnbalancedQuery(ledger_entries)).total_system_liquidity

\* the sum of the balances GET /accounts/{id} reports for the accounts ids
RECURSIVE SumOfBalances(_)
SumOfBalances(ids) ==
    IF ids = {} THEN 0
    ELSE LET a == CHOOSE x \in ids : TRUE
         IN  BalanceQuery(ledger_entries, a) + SumOfBalances(ids \ {a})

\* the amounts of the committed entries of the committed transactions of one type
TotalOf(type) ==
    SumAmounts({e \in ledger_entries :
                   \E t \in transactions : t.id = e.transaction_id /\ t.type = type})

\* C20: conservation of liquidity: in every state the total_system_liquidity of the
\* committed rows is the sum of the balances of all accounts and is the total of the
\* committed deposits minus the total of the committed withdrawals; the step that
\* ends a transfer, committed or not, and the step that ends any refused or failed
\* request leave it unchanged.
C20_Conservation ==
    /\ [](/\ Liquidity = SumOfBalances(accounts)
          /\ Liquidity = TotalOf("DEPOSIT") - TotalOf("WITHDRAWAL"))
    /\ [][\A w \in Callers :
             (/\ pc[w] # "done" /\ pc'[w] = "done"
              /\ request[w].op = "TRANSFER" \/ outcome'[w] # "Success")
             => Liquidity' = Liquidity]_vars

\* C20 witness: a transfer between two accounts is committed, a request has been
\* refused for insufficient funds, and the liquidity is what was deposited.
C20_Witness ==
    /\ \E t \in Committed("TRANSFER") :
          Cardinality({e.account_id : e \in EntriesOf(t)}) = 2
    /\ \E w \in Callers : pc[w] = "done" /\ outcome[w] = "InsufficientFunds"
    /\ Liquidity > 0
    /\ Liquidity = TotalOf("DEPOSIT")

====
